---- MODULE Spec2Model ----
(***************************************************************************)
(* bitcraft-chatbridge: the pipeline of src/main.rs.                       *)
(*                                                                         *)
(*   ingestion (ctx.run_until)  --rx_ctx-->  sieve  --rx_msg-->  consume   *)
(*                     \______ on_disconnect: Disconnect ______/           *)
(*                                                                         *)
(* Three tokio tasks run in parallel (multi-threaded runtime).  The two    *)
(* channels are unbounded mpsc channels: a send is one atomic step, and a  *)
(* send fails exactly when the receiver has been dropped.  The bindings    *)
(* crate (DbConnection, run_until, with_channel) is an external            *)
(* collaborator: it delivers update batches while the connection is up,    *)
(* invokes the on_disconnect callback once when the connection ends, and   *)
(* drops the connection (and with it the update sender) when run_until     *)
(* returns.                                                                *)
(***************************************************************************)
EXTENDS Integers, Sequences, FiniteSets, TLC

(***************************************************************************)
(* Bounds of the model.                                                    *)
(***************************************************************************)
MaxBatches == 2      \* update batches the change source delivers in a run
MaxRows == 2         \* rows of one update batch, all tables together
MaxId == 1           \* entity ids are 1..MaxId

MicrosPerSec == 1000000

EMPIRE_INTERNAL == "EmpireInternal"
EMPIRE_PUBLIC == "EmpirePublic"
CLAIM == "Claim"
REGION == "Region"
OTHER_CHANNEL == "Local"

PermanentBlockLogin == "PermanentBlockLogin"
TemporaryBlockLogin == "TemporaryBlockLogin"
BlockChat == "BlockChat"
BlockConstruct == "BlockConstruct"

Ids == 1..MaxId
Names == {"Sol", "Ur"}
Usernames == {"Bob"}
Texts == {"hello"}
Times == {1500000}
Channels == {EMPIRE_INTERNAL, EMPIRE_PUBLIC, CLAIM, REGION, OTHER_CHANNEL}
Policies == {PermanentBlockLogin, TemporaryBlockLogin, BlockChat,
             BlockConstruct}

WebhookUrls == {"", "https://hook"}

(***************************************************************************)
(* Rows and update batches (DbUpdate).                                     *)
(***************************************************************************)
SeqsOfLen(S, n) == [1..n -> S]

\* How MaxRows rows at most spread over the five tables of a batch.
RowSplits ==
    {t \in [1..5 -> 0..MaxRows] : t[1] + t[2] + t[3] + t[4] + t[5] <= MaxRows}

UpdatesOver(refRows, chatRows, modRows) ==
    UNION {[claim_state : SeqsOfLen(refRows, t[1]),
            empire_state : SeqsOfLen(refRows, t[2]),
            player_username_state : SeqsOfLen(refRows, t[3]),
            chat_message_state : SeqsOfLen(chatRows, t[4]),
            user_moderation_state : SeqsOfLen(modRows, t[5])] :
           t \in RowSplits}

\* Every update batch within the bounds: the input of the specification of
\* sieve alone (SieveSpec).
RefRows == [entity_id : Ids, name : Names]
ChatRows == [channel_id : Channels, target_id : Ids,
             username : Usernames, text : Texts]
ModRows == [target_entity_id : Ids, user_moderation_policy : Policies,
            expiration_time : Times]
AllUpdates == UpdatesOver(RefRows, ChatRows, ModRows)

\* The update batches of the specification of the whole pipeline (Spec):
\* one name per id, one channel per lookup kind, one policy.
PipeRefRows == [entity_id : Ids, name : {"Sol"}]
PipeChatRows == [channel_id : {EMPIRE_INTERNAL, CLAIM, REGION},
                 target_id : Ids, username : Usernames, text : Texts]
PipeModRows == [target_entity_id : Ids,
                user_moderation_policy : {TemporaryBlockLogin},
                expiration_time : Times]
PipeUpdates == UpdatesOver(PipeRefRows, PipeChatRows, PipeModRows)

(***************************************************************************)
(* enum Message and its constructors.                                      *)
(***************************************************************************)
Disconnect == [type |-> "Disconnect"]

chat(username, content) ==
    [type |-> "Chat", username |-> username, content |-> content]

claim(username, c, content) ==
    chat(username \o " [" \o c \o "]", content)

empire(username, e, content) ==
    chat(username \o " [" \o e \o "]", content)

moderation(username, policy, expiry) ==
    chat("<<MODERATION>>",
         "User " \o username \o " has been banned from " \o policy
         \o " " \o expiry \o "!")

as_expiry(expiry) ==
    "until <t:" \o ToString(expiry \div MicrosPerSec) \o ":f>!"

(***************************************************************************)
(* HashMap: a function whose domain is the set of keys present.            *)
(***************************************************************************)
EmptyMap == [k \in {} |-> ""]

\* Mutant: an insert for a key already present extends the name it holds.
insertExtending(map, k, v) ==
    IF k \in DOMAIN map THEN (k :> (map[k] \o v)) @@ map ELSE (k :> v) @@ map

\* Mutant: an insert for a key already present keeps the name it holds.
insertKeepingFirst(map, k, v) == map @@ (k :> v)

insert(map, k, v) == (k :> v) @@ map

RECURSIVE InsertAll(_, _)
InsertAll(map, rows) ==
    IF rows = <<>> THEN map
    ELSE InsertAll(insert(map, Head(rows).entity_id, Head(rows).name),
                   Tail(rows))

(***************************************************************************)
(* sieve: what one fact row turns into (a sequence of zero or one          *)
(* Message for Option<Message>).                                           *)
(***************************************************************************)
\* Mutant: the claim channel is looked up in the empire cache.
ResolveChatEmpireOnly(row, empireMap, claimMap) ==
    CASE row.channel_id \in {EMPIRE_INTERNAL, EMPIRE_PUBLIC, CLAIM} ->
            IF row.target_id \in DOMAIN empireMap
            THEN <<empire(row.username, empireMap[row.target_id], row.text)>>
            ELSE <<>>
      [] row.channel_id = REGION ->
            <<chat(row.username, row.text)>>
      [] OTHER -> <<>>

ResolveChat(row, empireMap, claimMap) ==
    CASE row.channel_id \in {EMPIRE_INTERNAL, EMPIRE_PUBLIC} ->
            IF row.target_id \in DOMAIN empireMap
            THEN <<empire(row.username, empireMap[row.target_id], row.text)>>
            ELSE <<>>
      [] row.channel_id = CLAIM ->
            IF row.target_id \in DOMAIN claimMap
            THEN <<claim(row.username, claimMap[row.target_id], row.text)>>
            ELSE <<>>
      [] row.channel_id = REGION ->
            <<chat(row.username, row.text)>>
      [] OTHER -> <<>>

ModUser(row, playerMap) ==
    IF row.target_entity_id \in DOMAIN playerMap
    THEN playerMap[row.target_entity_id]
    ELSE "{" \o ToString(row.target_entity_id) \o "}"

\* Mutant: the actions of BlockChat and BlockConstruct are exchanged.
ResolveModSwapped(row, playerMap) ==
    LET user == ModUser(row, playerMap) IN
    CASE row.user_moderation_policy = PermanentBlockLogin ->
            moderation(user, "logging in", "permanently")
      [] row.user_moderation_policy = TemporaryBlockLogin ->
            moderation(user, "logging in", as_expiry(row.expiration_time))
      [] row.user_moderation_policy = BlockChat ->
            moderation(user, "building", as_expiry(row.expiration_time))
      [] row.user_moderation_policy = BlockConstruct ->
            moderation(user, "chatting", as_expiry(row.expiration_time))

ResolveMod(row, playerMap) ==
    LET user == ModUser(row, playerMap) IN
    CASE row.user_moderation_policy = PermanentBlockLogin ->
            moderation(user, "logging in", "permanently")
      [] row.user_moderation_policy = TemporaryBlockLogin ->
            moderation(user, "logging in", as_expiry(row.expiration_time))
      [] row.user_moderation_policy = BlockChat ->
            moderation(user, "chatting", as_expiry(row.expiration_time))
      [] row.user_moderation_policy = BlockConstruct ->
            moderation(user, "building", as_expiry(row.expiration_time))

(***************************************************************************)
(* consume: the local echo line and the serialized payload of a Chat.      *)
(***************************************************************************)
EchoLine(m) == m.username \o ": " \o m.content

Payload(m) ==
    "{\"username\":\"" \o m.username \o "\",\"content\":\"" \o m.content
    \o "\"}"

Outcomes == {"success", "status", "transport"}

(***************************************************************************)
(* State.                                                                  *)
(***************************************************************************)
VARIABLES
    webhook_url,   \* config.webhook_url()
    conn,          \* the ingestion task: ctx.run_until(ctrl_c)
    ndelivered,    \* update batches delivered so far
    rx_ctx,        \* the update channel (tx_ctx -> rx_ctx)
    rx_msg,        \* the notification channel (tx_msg, tx_shutdown -> rx_msg)
    claims, empires, players,   \* the caches of sieve
    sieve_pc,      \* sieve: "recv", "rows", "done", "panicked"
    update,        \* sieve: the batch in hand, fact rows still to resolve
    consume_pc,    \* consume: "recv", "post", "done"
    failed,        \* consume: "failed to send message" lines written
    tick,          \* history: batches sieve has dequeued
    sent,          \* history: every message enqueued on rx_msg, with its tick
    planned,       \* history: the notifications each dequeued batch calls for
    applied,       \* history: the batches sieve has dequeued, in order
    consumed,      \* history: messages consume has dequeued
    echoed,        \* history: lines consume has printed
    posted,        \* history: payloads consume has POSTed
    atDisc         \* history: the pipeline when Disconnect was enqueued

vars == <<webhook_url, conn, ndelivered, rx_ctx, rx_msg, claims, empires,
          players, sieve_pc, update, consume_pc, failed, tick, sent, planned,
          applied, consumed, echoed, posted, atDisc>>

envVars == <<conn, ndelivered>>
cacheVars == <<claims, empires, players>>
sieveVars == <<claims, empires, players, sieve_pc, update, tick, planned,
               applied>>
consumeVars == <<consume_pc, failed, consumed, echoed, posted>>

NoUpdate ==
    [claim_state |-> <<>>, empire_state |-> <<>>,
     player_username_state |-> <<>>, chat_message_state |-> <<>>,
     user_moderation_state |-> <<>>]

NoSnap == [taken |-> FALSE]

Init ==
    /\ webhook_url \in WebhookUrls
    /\ conn = "running"
    /\ ndelivered = 0
    /\ rx_ctx = <<>>
    /\ rx_msg = <<>>
    /\ claims = EmptyMap
    /\ empires = EmptyMap
    /\ players = EmptyMap
    /\ sieve_pc = "recv"
    /\ update = NoUpdate
    /\ consume_pc = "recv"
    /\ failed = 0
    /\ tick = 0
    /\ sent = <<>>
    /\ planned = <<>>
    /\ applied = <<>>
    /\ consumed = <<>>
    /\ echoed = <<>>
    /\ posted = <<>>
    /\ atDisc = NoSnap

(***************************************************************************)
(* Channel ends.  tx_ctx lives in the connection and goes when run_until   *)
(* returns or its task panics; rx_msg goes when consume returns; tx_msg    *)
(* goes when sieve returns or panics, tx_shutdown with the connection.     *)
(***************************************************************************)
CtxSendersGone == conn \in {"returned", "panicked"}

MsgReceiverGone == consume_pc = "done"

MsgSendersGone ==
    /\ sieve_pc \in {"done", "panicked"}
    /\ conn \in {"returned", "panicked"}

HasFactRows(u) ==
    u.chat_message_state # <<>> \/ u.user_moderation_state # <<>>

RECURSIVE ChatPlan(_, _, _)
ChatPlan(rows, empireMap, claimMap) ==
    IF rows = <<>> THEN <<>>
    ELSE ResolveChat(Head(rows), empireMap, claimMap)
         \o ChatPlan(Tail(rows), empireMap, claimMap)

RECURSIVE ModPlan(_, _)
ModPlan(rows, playerMap) ==
    IF rows = <<>> THEN <<>>
    ELSE <<ResolveMod(Head(rows), playerMap)>> \o ModPlan(Tail(rows), playerMap)

(***************************************************************************)
(* The change source (bindings crate, driven by ctx.run_until).            *)
(***************************************************************************)
\* One update batch arrives and is pushed on the update channel.
DeliverFrom(updates) ==
    /\ conn \in {"running", "cancelled"}
    /\ ndelivered < MaxBatches
    /\ \E u \in updates : rx_ctx' = Append(rx_ctx, u)
    /\ ndelivered' = ndelivered + 1
    /\ UNCHANGED <<webhook_url, conn, rx_msg, sieveVars, consumeVars, sent,
                   atDisc>>

Deliver == DeliverFrom(PipeUpdates)

DeliverAny == DeliverFrom(AllUpdates)

\* tokio::signal::ctrl_c() completes: run_until starts closing the connection.
Cancel ==
    /\ conn = "running"
    /\ conn' = "cancelled"
    /\ UNCHANGED <<webhook_url, ndelivered, rx_ctx, rx_msg, sieveVars,
                   consumeVars, sent, atDisc>>

\* Mutant: a callback that only prints, and never sends the sentinel.
OnDisconnectNoSend ==
    /\ conn \in {"running", "cancelled"}
    /\ conn' = "disconnected"
    /\ UNCHANGED <<webhook_url, ndelivered, rx_ctx, rx_msg, sieveVars,
                   consumeVars, sent, atDisc>>

\* The connection ends (closed after ctrl_c, or lost): the on_disconnect
\* callback runs, tx_shutdown.send(Message::Disconnect).unwrap().
OnDisconnect ==
    /\ conn \in {"running", "cancelled"}
    /\ IF MsgReceiverGone
       THEN /\ conn' = "panicked"
            /\ UNCHANGED <<rx_msg, sent, atDisc>>
       ELSE /\ conn' = "disconnected"
            /\ rx_msg' = Append(rx_msg, Disconnect)
            /\ sent' = Append(sent, [msg |-> Disconnect, tick |-> 0])
            /\ atDisc' = [taken |-> TRUE, queued |-> rx_msg,
                          echoed |-> echoed, posted |-> posted,
                          tick |-> tick]
    /\ UNCHANGED <<webhook_url, ndelivered, rx_ctx, sieveVars, consumeVars>>

\* run_until returns; the connection and its callbacks are dropped.
RunUntilReturn ==
    /\ conn = "disconnected"
    /\ conn' = "returned"
    /\ UNCHANGED <<webhook_url, ndelivered, rx_ctx, rx_msg, sieveVars,
                   consumeVars, sent, atDisc>>

(***************************************************************************)
(* sieve.                                                                  *)
(***************************************************************************)
\* sieve holds batch u, with the caches as c, e and p when its fact rows are
\* resolved.
SieveBegin(u, c, e, p) ==
    /\ rx_ctx' = Tail(rx_ctx)
    /\ claims' = c
    /\ empires' = e
    /\ players' = p
    /\ tick' = tick + 1
    /\ applied' = Append(applied, u)
    /\ planned' = planned \o ChatPlan(u.chat_message_state, e, c)
                          \o ModPlan(u.user_moderation_state, p)
    /\ update' = IF HasFactRows(u) THEN u ELSE NoUpdate
    /\ sieve_pc' = IF HasFactRows(u) THEN "rows" ELSE "recv"

\* Mutant: the fact rows of a batch are resolved before its reference rows
\* are applied.
SieveRecvFactsFirst ==
    /\ sieve_pc = "recv"
    /\ rx_ctx # <<>> \/ CtxSendersGone
    /\ IF rx_ctx = <<>>
       THEN /\ sieve_pc' = "done"
            /\ UNCHANGED <<rx_ctx, cacheVars, update, tick, planned,
                           applied>>
       ELSE SieveBegin(Head(rx_ctx), claims, empires, players)
    /\ UNCHANGED <<webhook_url, envVars, rx_msg, consumeVars, sent, atDisc>>

\* Mutant: sieve does not see the channel close, and waits on it for ever.
SieveRecvNoClose ==
    /\ sieve_pc = "recv"
    /\ rx_ctx # <<>>
    /\ LET u == Head(rx_ctx) IN
       SieveBegin(u, InsertAll(claims, u.claim_state),
                     InsertAll(empires, u.empire_state),
                     InsertAll(players, u.player_username_state))
    /\ UNCHANGED <<webhook_url, envVars, rx_msg, consumeVars, sent, atDisc>>

\* rx.recv().await, then the three reference loops of the batch.
SieveRecv ==
    /\ sieve_pc = "recv"
    /\ rx_ctx # <<>> \/ CtxSendersGone
    /\ IF rx_ctx = <<>>
       THEN /\ sieve_pc' = "done"
            /\ UNCHANGED <<rx_ctx, cacheVars, update, tick, planned,
                           applied>>
       ELSE LET u == Head(rx_ctx) IN
            SieveBegin(u, InsertAll(claims, u.claim_state),
                          InsertAll(empires, u.empire_state),
                          InsertAll(players, u.player_username_state))
    /\ UNCHANGED <<webhook_url, envVars, rx_msg, consumeVars, sent, atDisc>>

\* Mutant: tx is a bounded channel of capacity 1, whose send waits for room.
SieveEmitBounded(out, rest) ==
    IF out # <<>> /\ MsgReceiverGone
    THEN /\ sieve_pc' = "panicked"
         /\ update' = NoUpdate
         /\ UNCHANGED <<rx_msg, sent>>
    ELSE /\ Len(rx_msg) + Len(out) <= 1
         /\ rx_msg' = rx_msg \o out
         /\ sent' = sent \o [i \in 1..Len(out) |->
                                [msg |-> out[i], tick |-> tick]]
         /\ update' = IF HasFactRows(rest) THEN rest ELSE NoUpdate
         /\ sieve_pc' = IF HasFactRows(rest) THEN "rows" ELSE "recv"

\* What follows a fact row: `out` (zero or one Message) is sent on tx, and
\* the loop goes on with `rest`.  A send to a dropped receiver panics.
SieveEmit(out, rest) ==
    IF out # <<>> /\ MsgReceiverGone
    THEN /\ sieve_pc' = "panicked"
         /\ update' = NoUpdate
         /\ UNCHANGED <<rx_msg, sent>>
    ELSE /\ rx_msg' = rx_msg \o out
         /\ sent' = sent \o [i \in 1..Len(out) |->
                                [msg |-> out[i], tick |-> tick]]
         /\ update' = IF HasFactRows(rest) THEN rest ELSE NoUpdate
         /\ sieve_pc' = IF HasFactRows(rest) THEN "rows" ELSE "recv"

\* Mutant: a lookup that misses leaves an empty entry in the empire cache.
SieveChatCachingMiss ==
    /\ sieve_pc = "rows"
    /\ update.chat_message_state # <<>>
    /\ SieveEmit(ResolveChat(Head(update.chat_message_state), empires, claims),
                 [update EXCEPT !.chat_message_state = Tail(@)])
    /\ empires' =
          IF ResolveChat(Head(update.chat_message_state), empires, claims)
                = <<>>
          THEN insert(empires, Head(update.chat_message_state).target_id, "")
          ELSE empires
    /\ UNCHANGED <<webhook_url, envVars, rx_ctx, claims, players, tick,
                   planned, applied, consumeVars, atDisc>>

\* One iteration of the loop over update.chat_message_state.inserts.
SieveChat ==
    /\ sieve_pc = "rows"
    /\ update.chat_message_state # <<>>
    /\ SieveEmit(ResolveChat(Head(update.chat_message_state), empires, claims),
                 [update EXCEPT !.chat_message_state = Tail(@)])
    /\ UNCHANGED <<webhook_url, envVars, rx_ctx, cacheVars, tick, planned,
                   applied, consumeVars, atDisc>>

\* Mutant: the moderation loop does not wait for the chat loop to finish.
SieveModFirst ==
    /\ sieve_pc = "rows"
    /\ update.user_moderation_state # <<>>
    /\ SieveEmit(<<ResolveMod(Head(update.user_moderation_state), players)>>,
                 [update EXCEPT !.user_moderation_state = Tail(@)])
    /\ UNCHANGED <<webhook_url, envVars, rx_ctx, cacheVars, tick, planned,
                   applied, consumeVars, atDisc>>

\* One iteration of the loop over update.user_moderation_state.inserts.
SieveMod ==
    /\ sieve_pc = "rows"
    /\ update.chat_message_state = <<>>
    /\ update.user_moderation_state # <<>>
    /\ SieveEmit(<<ResolveMod(Head(update.user_moderation_state), players)>>,
                 [update EXCEPT !.user_moderation_state = Tail(@)])
    /\ UNCHANGED <<webhook_url, envVars, rx_ctx, cacheVars, tick, planned,
                   applied, consumeVars, atDisc>>

(***************************************************************************)
(* consume.                                                                *)
(***************************************************************************)
\* Mutant: Disconnect is skipped and the loop goes on.
ConsumeMatchContinue(m, rest) ==
    /\ rx_msg' = rest
    /\ consumed' = Append(consumed, m)
    /\ IF m = Disconnect
       THEN /\ consume_pc' = "recv"
            /\ UNCHANGED <<echoed, posted>>
       ELSE /\ echoed' = Append(echoed, EchoLine(m))
            /\ IF webhook_url = ""
               THEN /\ consume_pc' = "recv"
                    /\ UNCHANGED posted
               ELSE /\ consume_pc' = "post"
                    /\ posted' = Append(posted, Payload(m))

\* The match on message m, up to the awaited POST; `rest` stays queued.
ConsumeMatch(m, rest) ==
    /\ rx_msg' = rest
    /\ consumed' = Append(consumed, m)
    /\ IF m = Disconnect
       THEN /\ consume_pc' = "done"
            /\ UNCHANGED <<echoed, posted>>
       ELSE /\ echoed' = Append(echoed, EchoLine(m))
            /\ IF webhook_url = ""
               THEN /\ consume_pc' = "recv"
                    /\ UNCHANGED posted
               ELSE /\ consume_pc' = "post"
                    /\ posted' = Append(posted, Payload(m))

\* Mutant: a non-blocking receive, so that consume returns on an empty queue.
ConsumeRecvTry ==
    /\ consume_pc = "recv"
    /\ IF rx_msg = <<>>
       THEN /\ consume_pc' = "done"
            /\ UNCHANGED <<rx_msg, consumed, echoed, posted>>
       ELSE ConsumeMatch(Head(rx_msg), Tail(rx_msg))
    /\ UNCHANGED <<webhook_url, envVars, rx_ctx, sieveVars, failed, sent,
                   atDisc>>

\* Mutant: the newest message is received first.
ConsumeRecvNewest ==
    /\ consume_pc = "recv"
    /\ rx_msg # <<>> \/ MsgSendersGone
    /\ IF rx_msg = <<>>
       THEN /\ consume_pc' = "done"
            /\ UNCHANGED <<rx_msg, consumed, echoed, posted>>
       ELSE ConsumeMatch(rx_msg[Len(rx_msg)],
                         SubSeq(rx_msg, 1, Len(rx_msg) - 1))
    /\ UNCHANGED <<webhook_url, envVars, rx_ctx, sieveVars, failed, sent,
                   atDisc>>

\* rx.recv().await and the match on the message, up to the awaited POST.
ConsumeRecv ==
    /\ consume_pc = "recv"
    /\ rx_msg # <<>> \/ MsgSendersGone
    /\ IF rx_msg = <<>>
       THEN /\ consume_pc' = "done"
            /\ UNCHANGED <<rx_msg, consumed, echoed, posted>>
       ELSE ConsumeMatch(Head(rx_msg), Tail(rx_msg))
    /\ UNCHANGED <<webhook_url, envVars, rx_ctx, sieveVars, failed, sent,
                   atDisc>>

\* Mutant: a failed delivery ends consume (the error is propagated).
ConsumeResponseAbort ==
    /\ consume_pc = "post"
    /\ \E outcome \in Outcomes :
          /\ failed' = IF outcome = "success" THEN failed ELSE failed + 1
          /\ consume_pc' = IF outcome = "success" THEN "recv" ELSE "done"
    /\ UNCHANGED <<webhook_url, envVars, rx_ctx, rx_msg, sieveVars, consumed,
                   echoed, posted, sent, atDisc>>

\* Mutant: a failed delivery is attempted again.
ConsumeResponseRetry ==
    /\ consume_pc = "post"
    /\ \E outcome \in Outcomes :
          IF outcome = "success"
          THEN /\ consume_pc' = "recv"
               /\ UNCHANGED <<failed, posted>>
          ELSE /\ consume_pc' = "post"
               /\ failed' = failed + 1
               /\ posted' = Append(posted, posted[Len(posted)])
    /\ UNCHANGED <<webhook_url, envVars, rx_ctx, rx_msg, sieveVars, consumed,
                   echoed, sent, atDisc>>

\* The POST returns: a transport error or a non-success status is logged.
ConsumeResponse ==
    /\ consume_pc = "post"
    /\ \E outcome \in Outcomes :
          failed' = IF outcome = "success" THEN failed ELSE failed + 1
    /\ consume_pc' = "recv"
    /\ UNCHANGED <<webhook_url, envVars, rx_ctx, rx_msg, sieveVars, consumed,
                   echoed, posted, sent, atDisc>>

Next ==
    \/ Deliver
    \/ Cancel
    \/ OnDisconnect
    \/ RunUntilReturn
    \/ SieveRecv
    \/ SieveChat
    \/ SieveMod
    \/ ConsumeRecv
    \/ ConsumeResponse

Spec == Init /\ [][Next]_vars

\* sieve alone, fed every update batch within the bounds.
SieveInit == Init /\ webhook_url = ""

SieveNext ==
    \/ DeliverAny
    \/ SieveRecv
    \/ SieveChat
    \/ SieveMod

SieveSpec == SieveInit /\ [][SieveNext]_vars

\* The scheduling of a run: tokio polls every spawned task that can go on,
\* the POST returns, and a connection closed by ctrl_c calls on_disconnect,
\* after which run_until returns.  A connection that is up may stay up, and
\* ctrl_c may never come.
Fairness ==
    /\ WF_vars(conn = "cancelled" /\ OnDisconnect)
    /\ WF_vars(RunUntilReturn)
    /\ WF_vars(SieveRecv)
    /\ WF_vars(SieveChat)
    /\ WF_vars(SieveMod)
    /\ WF_vars(ConsumeRecv)
    /\ WF_vars(ConsumeResponse)

LiveSpec == Init /\ [][Next]_vars /\ Fairness

\* main returns once tokio::join! has all three tasks.
Exited ==
    /\ conn \in {"returned", "panicked"}
    /\ sieve_pc \in {"done", "panicked"}
    /\ consume_pc = "done"

(***************************************************************************)
(* Vocabulary of the properties.                                           *)
(***************************************************************************)
IsChat(m) == m.type = "Chat"

Chats(msgs) == SelectSeq(msgs, IsChat)

SentMsgs == [i \in 1..Len(sent) |-> sent[i].msg]

NDisconnect == Len(sent) - Len(Chats(SentMsgs))

EchoLines(msgs) == [i \in 1..Len(msgs) |-> EchoLine(msgs[i])]

Payloads(msgs) == [i \in 1..Len(msgs) |-> Payload(msgs[i])]

IsPrefix(s, t) == Len(s) <= Len(t) /\ SubSeq(t, 1, Len(s)) = s

SentinelConsumed == consumed # <<>> /\ consumed[Len(consumed)] = Disconnect

\* C1: the Disconnect sentinel is enqueued at most once in every state, and
\* exactly once in every run that has ended (all three tasks joined).
DisconnectExactlyOnce ==
    /\ NDisconnect <= 1
    /\ Exited => NDisconnect = 1

DisconnectExactlyOnceWitness ==
    /\ Exited
    /\ NDisconnect = 1
    /\ tick = MaxBatches

\* C2: no Chat notification is enqueued behind the Disconnect sentinel.
NoChatBehindDisconnect ==
    \A i, j \in 1..Len(sent) :
        (i < j /\ sent[i].msg = Disconnect) => ~IsChat(sent[j].msg)

\* C3: consume has returned if and only if it has dequeued Disconnect, and
\* by then it has dequeued everything enqueued ahead of the sentinel.
ConsumeReturnsOnSentinel ==
    /\ consume_pc = "done" <=> SentinelConsumed
    /\ consume_pc = "done" =>
          /\ IsPrefix(consumed, SentMsgs)
          /\ \A i \in 1..Len(consumed) - 1 : IsChat(consumed[i])
          /\ echoed = EchoLines(Chats(consumed))

ConsumeReturnsOnSentinelWitness ==
    /\ consume_pc = "done"
    /\ Len(consumed) >= 3
    /\ ~MsgSendersGone

\* C4: the N Chat notifications on the queue when Disconnect is enqueued are
\* all echoed (and POSTed, with an endpoint configured), in queue order, by
\* the time consume dequeues the sentinel.
QueuedDrainedBeforeSentinel ==
    (atDisc.taken /\ SentinelConsumed) =>
        /\ echoed = atDisc.echoed \o EchoLines(atDisc.queued)
        /\ posted = atDisc.posted \o (IF webhook_url = "" THEN <<>>
                                      ELSE Payloads(atDisc.queued))

QueuedDrainedBeforeSentinelWitness ==
    /\ atDisc.taken
    /\ SentinelConsumed
    /\ Len(atDisc.queued) >= 2
    /\ atDisc.queued[1] # atDisc.queued[2]
    /\ webhook_url # ""

\* C5: the sentinel is never enqueued ahead of a notification of a batch that
\* sieve had already dequeued when the connection ended.
NoSentinelInsideTick ==
    atDisc.taken =>
        \A i, j \in 1..Len(sent) :
            (i < j /\ sent[i].msg = Disconnect /\ IsChat(sent[j].msg))
                => sent[j].tick > atDisc.tick

\* C6: when the process exits, every Chat notification sieve enqueued has
\* been dequeued and echoed by consume.
NoNotificationLost ==
    Exited => echoed = EchoLines(Chats(SentMsgs))

\* The name of the last row of `rows` that inserts `id`.
Inserts(rows, id) == {i \in 1..Len(rows) : rows[i].entity_id = id}

LastName(rows, id) ==
    rows[CHOOSE i \in Inserts(rows, id) :
            \A k \in Inserts(rows, id) : k <= i].name

\* C7: when a chat row on an empire or claim channel, or a moderation row, is
\* about to be resolved and a reference row of the matching table in the same
\* batch inserts its target id, the row resolves to the name that batch gives
\* the id (its last row for the id), whatever the caches held before.
SameTickReferenceResolves ==
    sieve_pc = "rows" =>
        /\ update.chat_message_state # <<>> =>
              LET r == Head(update.chat_message_state) IN
              /\ (/\ r.channel_id \in {EMPIRE_INTERNAL, EMPIRE_PUBLIC}
                  /\ Inserts(update.empire_state, r.target_id) # {})
                 => ResolveChat(r, empires, claims) =
                      <<empire(r.username,
                               LastName(update.empire_state, r.target_id),
                               r.text)>>
              /\ (/\ r.channel_id = CLAIM
                  /\ Inserts(update.claim_state, r.target_id) # {})
                 => ResolveChat(r, empires, claims) =
                      <<claim(r.username,
                              LastName(update.claim_state, r.target_id),
                              r.text)>>
        /\ (/\ update.chat_message_state = <<>>
            /\ update.user_moderation_state # <<>>) =>
              LET r == Head(update.user_moderation_state) IN
              Inserts(update.player_username_state, r.target_entity_id) # {}
                 => ModUser(r, players) =
                      LastName(update.player_username_state,
                               r.target_entity_id)

SameTickReferenceResolvesWitness ==
    /\ sieve_pc = "rows"
    /\ tick = 1
    /\ update.chat_message_state # <<>>
    /\ Head(update.chat_message_state).channel_id = CLAIM
    /\ Inserts(update.claim_state,
               Head(update.chat_message_state).target_id) # {}

\* C8: whatever the outcome of a delivery, consume goes back to receiving,
\* and the queue and everything consume has done so far are as they were.
DeliveryOutcomeIgnored ==
    [][(consume_pc = "post" /\ consume_pc' # "post") =>
          /\ consume_pc' = "recv"
          /\ failed' \in {failed, failed + 1}
          /\ UNCHANGED <<rx_msg, consumed, echoed, posted>>]_vars

DeliveryOutcomeIgnoredWitness ==
    /\ Len(posted) = 2
    /\ failed = 2
    /\ consume_pc = "recv"

\* C9: consume echoes every Chat it dequeues exactly once, POSTs it exactly
\* once with an endpoint configured and never without one, puts nothing back
\* on the queue, and neither echoes nor POSTs the sentinel.
EchoOnceDeliverAtMostOnce ==
    /\ echoed = EchoLines(Chats(consumed))
    /\ posted = IF webhook_url = "" THEN <<>> ELSE Payloads(Chats(consumed))
    /\ failed <= Len(posted)
    /\ SentMsgs = consumed \o rx_msg

EchoOnceDeliverAtMostOnceWitness ==
    /\ SentinelConsumed
    /\ Len(consumed) = 3
    /\ webhook_url # ""
    /\ failed = 1

\* C10: consume dequeues messages in the order they were enqueued; sieve
\* enqueues, batch after batch, the notifications of the batch's chat rows
\* in row order and then those of its moderation rows in row order.
OrderPreserved ==
    /\ IsPrefix(consumed, SentMsgs)
    /\ IsPrefix(Chats(SentMsgs), planned)
    /\ sieve_pc \in {"recv", "done"} => Chats(SentMsgs) = planned
    /\ \A i, j \in 1..Len(sent) :
          (i < j /\ IsChat(sent[i].msg) /\ IsChat(sent[j].msg))
             => sent[i].tick <= sent[j].tick

OrderPreservedWitness ==
    /\ Len(Chats(consumed)) = 3
    /\ \E i \in 1..Len(sent) - 1 :
          /\ IsChat(sent[i].msg) /\ IsChat(sent[i + 1].msg)
          /\ sent[i].tick = sent[i + 1].tick
          /\ sent[i].msg.username # "<<MODERATION>>"
          /\ sent[i + 1].msg.username = "<<MODERATION>>"
    /\ \E i, j \in 1..Len(sent) :
          IsChat(sent[i].msg) /\ IsChat(sent[j].msg)
          /\ sent[i].tick < sent[j].tick

\* A step of sieve that resolves the chat row, or the moderation row, at the
\* head of the batch in hand.
ChatRowStep ==
    /\ sieve_pc = "rows"
    /\ update.chat_message_state # <<>>
    /\ <<sieve_pc, update>>' # <<sieve_pc, update>>

ModRowStep ==
    /\ sieve_pc = "rows"
    /\ update.chat_message_state = <<>>
    /\ update.user_moderation_state # <<>>
    /\ <<sieve_pc, update>>' # <<sieve_pc, update>>

\* The messages enqueued by the step, oldest first.
NewlySent == SubSeq(sent', Len(sent) + 1, Len(sent'))

RowsLeft(u) == Len(u.chat_message_state) + Len(u.user_moderation_state)

\* C11: a chat row enqueues one Chat with username "<username> [<name>]"
\* when its channel is an empire channel (or the claim channel) and its
\* target is in the empire (claim) cache, one Chat with its username
\* unchanged on the Region channel, and nothing otherwise; with that the row
\* is done with, and no step other than the resolution of a row enqueues.
ChatRowNotification ==
    [][/\ ChatRowStep =>
            LET r == Head(update.chat_message_state)
                tagged(m) == [msg |-> m, tick |-> tick]
            IN  /\ RowsLeft(update') = RowsLeft(update) - 1
                /\ NewlySent =
                     IF /\ r.channel_id \in {"EmpireInternal", "EmpirePublic"}
                        /\ r.target_id \in DOMAIN empires
                     THEN <<tagged([type |-> "Chat",
                                    username |-> r.username \o " ["
                                       \o empires[r.target_id] \o "]",
                                    content |-> r.text])>>
                     ELSE IF /\ r.channel_id = "Claim"
                             /\ r.target_id \in DOMAIN claims
                     THEN <<tagged([type |-> "Chat",
                                    username |-> r.username \o " ["
                                       \o claims[r.target_id] \o "]",
                                    content |-> r.text])>>
                     ELSE IF r.channel_id = "Region"
                     THEN <<tagged([type |-> "Chat", username |-> r.username,
                                    content |-> r.text])>>
                     ELSE <<>>
       /\ sent' # sent => ChatRowStep \/ ModRowStep]_vars

\* A chat row that missed in the first batch stays dropped when the second
\* batch brings the claim it referred to.
ChatRowNotificationWitness ==
    /\ tick = 2
    /\ sieve_pc = "recv"
    /\ applied[1].chat_message_state # <<>>
    /\ applied[1].chat_message_state[1].channel_id = CLAIM
    /\ applied[1].claim_state = <<>>
    /\ applied[2].claim_state # <<>>
    /\ applied[2].chat_message_state # <<>>
    /\ applied[2].chat_message_state[1].channel_id = EMPIRE_PUBLIC
    /\ sent = <<>>

\* The time marker of a timestamp: its whole seconds, as "<t:SECONDS:f>".
TimeMarker(t) == "<t:" \o ToString(t \div 1000000) \o ":f>"

\* C12: a moderation row enqueues exactly one notification; it names the
\* cached player, or "{<id>}" when the target is not cached; the action is
\* "logging in", "chatting" or "building" by policy; the expiry phrase is
\* "permanently" for PermanentBlockLogin and "until <time marker>!" for the
\* time-bounded policies.
ModRowNotification ==
    [][ModRowStep =>
          LET r == Head(update.user_moderation_state)
              pol == r.user_moderation_policy
              name == IF r.target_entity_id \in DOMAIN players
                      THEN players[r.target_entity_id]
                      ELSE "{" \o ToString(r.target_entity_id) \o "}"
              action == IF pol \in {"PermanentBlockLogin",
                                    "TemporaryBlockLogin"}
                        THEN "logging in"
                        ELSE IF pol = "BlockChat" THEN "chatting"
                        ELSE "building"
              phrase == IF pol = "PermanentBlockLogin" THEN "permanently"
                        ELSE "until " \o TimeMarker(r.expiration_time) \o "!"
          IN  /\ RowsLeft(update') = RowsLeft(update) - 1
              /\ NewlySent =
                   <<[msg |-> [type |-> "Chat", username |-> "<<MODERATION>>",
                               content |-> "User " \o name
                                  \o " has been banned from " \o action
                                  \o " " \o phrase \o "!"],
                      tick |-> tick]>>]_vars

ModRowNotificationWitness ==
    /\ Len(sent) = 2
    /\ sent[1].msg.content
         = "User {1} has been banned from building until <t:1:f>!!"
    /\ sent[2].msg.content
         = "User Sol has been banned from logging in permanently!"

\* C13: a TemporaryBlockLogin row whose target is not cached enqueues the
\* content "User {<id>} has been banned from logging in until <time marker>!",
\* with one closing "!" and nothing after it.
UnresolvedTemporaryBanContent ==
    [][(/\ ModRowStep
        /\ Head(update.user_moderation_state).user_moderation_policy
             = "TemporaryBlockLogin"
        /\ Head(update.user_moderation_state).target_entity_id
             \notin DOMAIN players) =>
          LET r == Head(update.user_moderation_state) IN
          /\ Len(NewlySent) = 1
          /\ NewlySent[1].msg.content =
               "User {" \o ToString(r.target_entity_id)
               \o "} has been banned from logging in until "
               \o TimeMarker(r.expiration_time) \o "!"]_vars

\* A step of sieve that dequeues a batch and applies its reference rows.
DequeueStep == sieve_pc = "recv" /\ rx_ctx # <<>> /\ tick' = tick + 1

\* The cache with the one row applied once.
AppliedOnce(cache, row) ==
    [k \in DOMAIN cache \cup {row.entity_id} |->
        IF k = row.entity_id THEN row.name ELSE cache[k]]

Holds(cache, row) ==
    row.entity_id \in DOMAIN cache /\ cache[row.entity_id] = row.name

\* What C14 says of one table: a batch that holds the same row twice leaves
\* the cache as one application of the row leaves it, and a batch whose rows
\* have all been applied before (the cache holds them) leaves it unchanged.
Reapplied(before, after, rows) ==
    /\ (Len(rows) = 2 /\ rows[1] = rows[2])
          => after = AppliedOnce(before, rows[1])
    /\ (\A i \in 1..Len(rows) : Holds(before, rows[i])) => after = before

\* C14: applying the same reference row twice, in one batch or in two, leaves
\* the caches as applying it once leaves them.
ReferenceInsertIdempotent ==
    [][DequeueStep =>
          LET u == Head(rx_ctx) IN
          /\ Reapplied(claims, claims', u.claim_state)
          /\ Reapplied(empires, empires', u.empire_state)
          /\ Reapplied(players, players', u.player_username_state)]_vars

ReferenceInsertIdempotentWitness ==
    /\ tick = 2
    /\ Len(applied[1].claim_state) = 2
    /\ applied[1].claim_state[1] = applied[1].claim_state[2]
    /\ applied[2].claim_state = <<applied[1].claim_state[1]>>
    /\ claims = AppliedOnce(EmptyMap, applied[1].claim_state[1])

\* The rows of one reference table in all the batches dequeued so far.
RECURSIVE RowsOf(_, _)
RowsOf(batches, table) ==
    IF batches = <<>> THEN <<>>
    ELSE Head(batches)[table] \o RowsOf(Tail(batches), table)

LastWins(cache, rows) ==
    /\ DOMAIN cache = {rows[i].entity_id : i \in 1..Len(rows)}
    /\ \A id \in DOMAIN cache : cache[id] = LastName(rows, id)

\* C17: each cache holds exactly the ids inserted by the batches dequeued so
\* far, each with the name of the last row that inserted it.
CachesHoldLastInsert ==
    /\ LastWins(claims, RowsOf(applied, "claim_state"))
    /\ LastWins(empires, RowsOf(applied, "empire_state"))
    /\ LastWins(players, RowsOf(applied, "player_username_state"))

CachesHoldLastInsertWitness ==
    /\ tick = 2
    /\ sieve_pc = "rows"
    /\ update.user_moderation_state # <<>>
    /\ applied[1].player_username_state = <<[entity_id |-> 1, name |-> "Sol"]>>
    /\ applied[2].player_username_state = <<[entity_id |-> 1, name |-> "Ur"]>>
    /\ players[1] = "Ur"

\* C18: a cache changes only in a step of sieve that dequeues a batch with
\* rows of that cache's table; no other step of sieve, consume or the
\* connection changes any cache.
CachesChangeOnlyByReferenceRows ==
    [][/\ claims' # claims =>
            DequeueStep /\ Head(rx_ctx).claim_state # <<>>
       /\ empires' # empires =>
            DequeueStep /\ Head(rx_ctx).empire_state # <<>>
       /\ players' # players =>
            DequeueStep /\ Head(rx_ctx).player_username_state # <<>>]_vars

CachesChangeOnlyByReferenceRowsWitness ==
    /\ SentinelConsumed
    /\ Len(posted) >= 1
    /\ claims # EmptyMap
    /\ empires = EmptyMap
    /\ \E i \in 1..Len(applied) :
          /\ applied[i].chat_message_state # <<>>
          /\ applied[i].chat_message_state[1].channel_id = EMPIRE_INTERNAL

\* consume is inside the awaited POST.
SinkStalled == consume_pc = "post"

\* C15: while consume is stalled inside a POST, no producer waits for it:
\* sieve can dequeue the next batch whenever one is queued, can carry out
\* the next fact row whenever it holds one, and the callback can send the
\* sentinel whenever the connection is still up; the messages pile up in
\* rx_msg.
ProducersNeverBlock ==
    SinkStalled =>
        /\ (sieve_pc = "recv" /\ rx_ctx # <<>>) => ENABLED SieveRecv
        /\ (sieve_pc = "rows" /\ update.chat_message_state # <<>>) =>
                ENABLED SieveChat
        /\ (sieve_pc = "rows" /\ update.chat_message_state = <<>>) =>
                ENABLED SieveMod
        /\ conn \in {"running", "cancelled"} => ENABLED OnDisconnect
        /\ rx_msg = SubSeq(SentMsgs, Len(consumed) + 1, Len(sent))

ProducersNeverBlockWitness ==
    /\ SinkStalled
    /\ Len(rx_msg) >= 3
    /\ rx_msg[Len(rx_msg)] = Disconnect
    /\ sieve_pc = "rows"

\* ctrl_c was received, or the connection ended.
Draining == conn \in {"cancelled", "disconnected"}

\* C16: once ctrl_c was received or the connection ended, the sentinel is
\* sent, consume receives it and returns, run_until returns, sieve ends, and
\* tokio::join! has all three tasks: main returns.
DrainingTerminates == Draining ~> (Exited /\ SentinelConsumed)

DrainingTerminatesWitness ==
    /\ Exited
    /\ SentinelConsumed
    /\ sieve_pc = "done"
    /\ conn = "returned"
    /\ tick = MaxBatches
    /\ Len(posted) >= 2

\* C19: no send on tx or tx_shutdown finds rx_msg dropped, so that neither
\* sieve nor the on_disconnect callback panics in unwrap.
NoSendAfterReceiverGone == sieve_pc # "panicked" /\ conn # "panicked"

\* Disconnect is among the messages consume has received.
SentinelSeen == \E i \in 1..Len(consumed) : consumed[i] = Disconnect

\* C20: once consume has received Disconnect it receives nothing more,
\* prints no line and starts no POST, whatever is queued behind the sentinel
\* or sent later.
NothingAfterSentinel ==
    [][SentinelSeen =>
          /\ UNCHANGED <<consumed, echoed, posted, failed>>
          /\ consume_pc' = "done"]_vars

NothingAfterSentinelWitness ==
    /\ SentinelSeen
    /\ rx_msg # <<>>
    /\ \E i \in 1..Len(sent) : sent[i].msg = Disconnect /\ i < Len(sent)
    /\ Len(echoed) < Len(Chats(SentMsgs))

====
